---------------------------- MODULE Spec2Model ----------------------------
(***************************************************************************)
(* A model of dump_gitlab_json.py: the paginating generator                *)
(* gen_all_results, the Markdown to Wiki converter GLParser.to_JIRA, and   *)
(* the project loop and the issue loop of main (the include / ignore       *)
(* filters, the project key allocation, the date filter, the status and    *)
(* resolution fields, the comments).                                       *)
(*                                                                         *)
(* Python strings are sequences of one-character strings.  The models of   *)
(* str.lower, str.upper, str.title, str.islower and of the regular         *)
(* expressions cover ASCII.  Dates are integers (days).                    *)
(***************************************************************************)
EXTENDS Integers, Sequences, FiniteSets, TLC

VARIABLES
    args,           \* the parsed command line (argparse namespace)
    pc,             \* where the modelled routine stands
    \* ---- main: the project loop
    key_set,        \* main's key_set
    out_keys,       \* jira_project['key'] of output_dict['projects'], in order
    candidates,     \* history: the key each of them had before the while loop
    last,           \* history: the project handled last and what became of it
    \* ---- GLParser.to_JIRA
    text,           \* the argument of to_JIRA
    result,         \* output_buf.getvalue()
    \* ---- main: the issue loop of one project
    project_issues, \* main's project_issues
    jira_issues,    \* jira_project['issues']
    n_fetched,      \* history: how many issues the generator has delivered
    \* ---- gen_all_results
    source,         \* the items the remote holds
    per_page,       \* gen_all_results' per_page
    page_num,       \* gen_all_results' page_num
    get_more,       \* gen_all_results' get_more
    proj_page,      \* what is left to yield of the page fetched last
    yielded,        \* history: the items yielded so far
    pages           \* history: the answer to each request, in order

projVars  == <<key_set, out_keys, candidates, last>>
textVars  == <<text, result>>
issueVars == <<project_issues, jira_issues, n_fetched>>
pageVars  == <<source, per_page, page_num, get_more, proj_page, yielded, pages>>
vars == <<args, pc, projVars, textVars, issueVars, pageVars>>

-----------------------------------------------------------------------------
(* Bounds of the model. *)

MaxNameLen == 2
MaxProjects == 3
MaxFragments == 4
MaxIssues == 2
MaxNotes == 1
MaxItems == 6
MaxPerPage == 3

-----------------------------------------------------------------------------
(* Strings. *)

Lowers == <<"a","b","c","d","e","f","g","h","i","j","k","l","m",
            "n","o","p","q","r","s","t","u","v","w","x","y","z">>
Uppers == <<"A","B","C","D","E","F","G","H","I","J","K","L","M",
            "N","O","P","Q","R","S","T","U","V","W","X","Y","Z">>
Digits == <<"0","1","2","3","4","5","6","7","8","9">>

InSeq(c, s) == \E i \in 1..Len(s) : s[i] = c
IndexOf(c, s) == CHOOSE i \in 1..Len(s) : s[i] = c

IsLowerCh(c) == InSeq(c, Lowers)
IsUpperCh(c) == InSeq(c, Uppers)
IsLetterCh(c) == IsLowerCh(c) \/ IsUpperCh(c)
IsDigitCh(c) == InSeq(c, Digits)

UpperCh(c) == IF IsLowerCh(c) THEN Uppers[IndexOf(c, Lowers)] ELSE c
LowerCh(c) == IF IsUpperCh(c) THEN Lowers[IndexOf(c, Uppers)] ELSE c

\* str.upper() and str.lower()
StrUpper(s) == [i \in 1..Len(s) |-> UpperCh(s[i])]
StrLower(s) == [i \in 1..Len(s) |-> LowerCh(s[i])]

\* str.islower(): some cased character, and no uppercase one
StrIsLower(s) ==
    /\ \E i \in 1..Len(s) : IsLowerCh(s[i])
    /\ \A i \in 1..Len(s) : ~IsUpperCh(s[i])

\* str.title(): a letter is uppercased after a non-letter (or at the start)
\* and lowercased after a letter
StrTitle(s) ==
    [i \in 1..Len(s) |->
        IF i > 1 /\ IsLetterCh(s[i-1]) THEN LowerCh(s[i]) ELSE UpperCh(s[i])]

\* re.sub(r'[^A-Z]', '', s) and re.sub(r'[^A-Za-z]', '', s)
OnlyUpper(s) == SelectSeq(s, IsUpperCh)
OnlyLetters(s) == SelectSeq(s, IsLetterCh)

\* str.strip(): without the white space at both ends
IsSpaceCh(c) == c \in {" ", "\t", "\n", "\r"}
StrStrip(s) ==
    LET inner == {i \in 1..Len(s) : ~IsSpaceCh(s[i])}
    IN  IF inner = {} THEN <<>>
        ELSE SubSeq(s, CHOOSE i \in inner : \A j \in inner : i <= j,
                       CHOOSE i \in inner : \A j \in inner : j <= i)

\* s[0:n]
Prefix(s, n) == SubSeq(s, 1, IF n < Len(s) THEN n ELSE Len(s))

\* chr(n) for the codes the suffix counter of main can take from 65 on
\* ("bq" stands for the backquote, code 96, which no TLA+ string can hold)
AfterZ == <<"[", "\\", "]", "^", "_", "bq">>
Chr(n) ==
    IF n <= 90 THEN Uppers[n - 64]
    ELSE IF n <= 96 THEN AfterZ[n - 90]
    ELSE Lowers[n - 96]

\* str.split(sep): the pieces of s between the occurrences of sep
RECURSIVE Split(_, _)
Split(s, sep) ==
    IF ~InSeq(sep, s) THEN <<s>>
    ELSE LET i == CHOOSE k \in 1..Len(s) :
                    s[k] = sep /\ \A j \in 1..(k-1) : s[j] # sep
         IN  <<SubSeq(s, 1, i-1)>> \o Split(SubSeq(s, i+1, Len(s)), sep)

\* dict_from_strings: item.split('=') must give exactly two pieces
DictItemsOk(strings) ==
    \A i \in 1..Len(strings) : Len(Split(strings[i], "=")) = 2

\* dict_from_strings(strings).get(k, default): the last item with key k wins
DictGet(strings, k, default) ==
    LET hits == {i \in 1..Len(strings) : Split(strings[i], "=")[1] = k}
    IN  IF hits = {} THEN default
        ELSE Split(strings[CHOOSE i \in hits : \A j \in hits : j <= i], "=")[2]

-----------------------------------------------------------------------------
(* main: the project loop, lines 207-293. *)

NameChars == {"a", "B", " "}

RECURSIVE StringsUpTo(_, _)
StringsUpTo(chars, n) ==
    IF n = 0 THEN {<<>>}
    ELSE LET shorter == StringsUpTo(chars, n - 1)
         IN  shorter \cup {Append(s, c) : s \in shorter, c \in chars}

\* project['name']: every short name over NameChars (GitLab project names
\* are not empty), and two longer ones whose words' initials differ from
\* their first two letters
LongNames == {<<"a", "b", " ", "a">>, <<"a", " ", "b", " ", "c">>}
Names == (StringsUpTo(NameChars, MaxNameLen) \ {<<>>}) \cup LongNames

\* CandidateKey with the .upper() of line 241 forgotten
CandidateKeyNoUpper(name) ==
    LET titled == IF StrIsLower(name) THEN StrTitle(name) ELSE name
        key == OnlyUpper(titled)
    IN  IF Len(key) < 2
        THEN Prefix(OnlyLetters(name), 2)
        ELSE key

\* lines 236-241: the key before the collision loop
CandidateKey(name) ==
    LET titled == IF StrIsLower(name) THEN StrTitle(name) ELSE name
        key == OnlyUpper(titled)
    IN  IF Len(key) < 2
        THEN StrUpper(Prefix(OnlyLetters(name), 2))
        ELSE key

\* KeyLoop with an `if` for the `while` of line 244: one test of key_set
KeyLoopOnce(key, added, suffix, ks) ==
    IF key \in ks THEN Append(key, "A") ELSE key

\* lines 244-249: the while loop; `added` is assigned at line 242 only
RECURSIVE KeyLoop(_, _, _, _)
KeyLoop(key, added, suffix, ks) ==
    IF key \in ks
    THEN IF ~added
         THEN KeyLoop(Append(key, "A"), added, suffix, ks)
         ELSE KeyLoop(Append(SubSeq(key, 1, Len(key) - 1), Chr(suffix + 1)),
                      added, suffix + 1, ks)
    ELSE key

\* lines 242-249: added = False, suffix = 65, then the loop
AllocateKey(name, ks) == KeyLoop(CandidateKey(name), FALSE, 65, ks)

\* argparse's defaults.  None is modelled by the empty sequence for the
\* options main only tests for truth (include_list, project_map, status_map,
\* default_JIRA_project) and for ignore_list, which main replaces by an empty
\* collection when it is None.
DefaultArgs ==
    [include_list |-> <<>>, ignore_list |-> <<>>, include_empty |-> FALSE,
     default_JIRA_project |-> <<>>, project_map |-> <<>>,
     preserve_markdown |-> FALSE, status_map |-> <<>>, date_filter |-> 0]

\* line 204: {line.strip().lower() for line in args.ignore_list}
IgnoreSet(lines) == {StrLower(StrStrip(lines[i])) : i \in 1..Len(lines)}

\* line 210: args.include_list and proj_name_lower not in args.include_list
NotIncluded(name, include_list) ==
    /\ include_list # <<>>
    /\ ~InSeq(StrLower(name), include_list)

\* lines 229-234: the key before the collision loop, by option
PreKey(name, a) ==
    IF a.default_JIRA_project # <<>> THEN a.default_JIRA_project
    ELSE IF a.project_map # <<>> THEN DictGet(a.project_map, name, name)
    ELSE CandidateKey(name)

\* lines 230-250: the branch with the collision loop is the last one
UsesKeySet(a) == a.default_JIRA_project = <<>> /\ a.project_map = <<>>

\* line 233 raises ValueError on an item without exactly one '='
ProjectMapRaises(a) ==
    /\ a.default_JIRA_project = <<>>
    /\ a.project_map # <<>>
    /\ ~DictItemsOk(a.project_map)

NoProject == [n |-> 0, name |-> <<>>, included |-> FALSE, emitted |-> FALSE]

\* One iteration of the loop of line 207 over a project the generator
\* delivers; has_issues is the truth of project_issues after lines 213-223.
ProcessProject(name, issues_enabled, has_issues) ==
    /\ pc = "projects"
    /\ last.n < MaxProjects
    /\ IF NotIncluded(name, args.include_list)
       THEN /\ last' = [n |-> last.n + 1, name |-> name,
                        included |-> FALSE, emitted |-> FALSE]
            /\ UNCHANGED <<pc, key_set, out_keys, candidates>>
       ELSE IF ~(StrLower(name) \notin IgnoreSet(args.ignore_list)
                 /\ issues_enabled /\ (has_issues \/ args.include_empty))
       THEN /\ last' = [n |-> last.n + 1, name |-> name,
                        included |-> TRUE, emitted |-> FALSE]
            /\ UNCHANGED <<pc, key_set, out_keys, candidates>>
       ELSE IF ProjectMapRaises(args)
       THEN /\ pc' = "crashed"
            /\ last' = [n |-> last.n + 1, name |-> name,
                        included |-> TRUE, emitted |-> FALSE]
            /\ UNCHANGED <<key_set, out_keys, candidates>>
       ELSE LET pre == PreKey(name, args)
                key == IF UsesKeySet(args) THEN AllocateKey(name, key_set)
                       ELSE pre
            IN  /\ key_set' = IF UsesKeySet(args) THEN key_set \cup {key}
                              ELSE key_set
                /\ out_keys' = Append(out_keys, key)
                /\ candidates' = Append(candidates, pre)
                /\ last' = [n |-> last.n + 1, name |-> name,
                            included |-> TRUE, emitted |-> TRUE]
                /\ pc' = pc
    /\ UNCHANGED <<args, textVars, issueVars, pageVars>>

\* The generator of line 207 is exhausted: main goes on to the users.
EndProjects ==
    /\ pc = "projects"
    /\ pc' = "users"
    /\ UNCHANGED <<args, projVars, textVars, issueVars, pageVars>>

\* The command lines the project loop is run under: the defaults; an ignore
\* file with --include_empty; include lists, typed in lower and in upper
\* case; a default JIRA project; project maps, well and ill formed.
IgnoreFile == << <<" ", "a">>, <<"B", "a">> >>
ProjectArgs ==
    { DefaultArgs,
      [DefaultArgs EXCEPT !.ignore_list = IgnoreFile, !.include_empty = TRUE],
      [DefaultArgs EXCEPT !.include_list = << <<"B">> >>],
      [DefaultArgs EXCEPT !.include_list = << <<"b">> >>],
      [DefaultArgs EXCEPT !.include_list = << <<"a">>, <<"B", "a">> >>],
      [DefaultArgs EXCEPT !.default_JIRA_project = <<"D", "P">>,
                          !.project_map = << <<"a", "=", "A", "B">> >>],
      [DefaultArgs EXCEPT !.include_list = << <<"a">>, <<"b">> >>,
                          !.project_map = << <<"a", "=", "A", "B">> >>],
      [DefaultArgs EXCEPT !.include_list = << <<"a">>, <<"b">> >>,
                          !.project_map = << <<"a", "=", "A", "B">>,
                                             <<"b">> >>] }

\* The variables a specification leaves alone.
IdleProj ==
    /\ key_set = {} /\ out_keys = <<>> /\ candidates = <<>>
    /\ last = NoProject
IdleText == text = [is_none |-> TRUE, val |-> <<>>] /\ result = <<>>
IdleIssues == project_issues = <<>> /\ jira_issues = <<>> /\ n_fetched = 0
IdlePages ==
    /\ source = <<>> /\ per_page = 1 /\ page_num = 0 /\ get_more = TRUE
    /\ proj_page = <<>> /\ yielded = <<>> /\ pages = <<>>

InitProjects ==
    /\ args \in ProjectArgs
    /\ pc = "projects"
    /\ IdleProj /\ IdleText /\ IdleIssues /\ IdlePages

NextProjects ==
    \/ \E name \in Names, issues_enabled \in BOOLEAN, has_issues \in BOOLEAN :
            ProcessProject(name, issues_enabled, has_issues)
    \/ EndProjects

SpecProjects == InitProjects /\ [][NextProjects]_vars

-----------------------------------------------------------------------------
(* The project loop: properties. *)

LastKey == out_keys[Len(out_keys)]
LetterCount(name) == Len(OnlyLetters(name))

\* C1: in the branch with the collision loop (neither default_JIRA_project
\* nor project_map), no two projects of a run receive the same key: the keys
\* of the output are pairwise different, and each was new to key_set when it
\* was added, so key_set holds as many keys as projects were emitted.
KeysUnique ==
    UsesKeySet(args) =>
        /\ \A i, j \in 1..Len(out_keys) : i # j => out_keys[i] # out_keys[j]
        /\ Cardinality(key_set) = Len(out_keys)

\* Three projects with one candidate key have been given three keys.
KeysUniqueWitness ==
    /\ UsesKeySet(args)
    /\ Len(out_keys) = 3
    /\ candidates[1] = candidates[2] /\ candidates[2] = candidates[3]
    /\ Cardinality(key_set) = 3

\* C2: three projects whose names reduce to the same candidate key K,
\* allocated one after another from an empty registry, receive K, K + 'A'
\* and K + 'B'.
SuffixSequence ==
    ( /\ UsesKeySet(args)
      /\ Len(out_keys) = 3
      /\ candidates[1] = candidates[2] /\ candidates[2] = candidates[3] )
    => out_keys = << candidates[1],
                     Append(candidates[1], "A"),
                     Append(candidates[1], "B") >>

\* C3 as stated: every allocated key has at least two characters, all of
\* them uppercase ASCII letters.
KeyShapeAnyName ==
    (UsesKeySet(args) /\ last.emitted) =>
        /\ Len(LastKey) >= 2
        /\ \A i \in 1..Len(LastKey) : IsUpperCh(LastKey[i])

\* C3, amended: every allocated key consists of uppercase ASCII letters
\* only, and has at least two of them when the project name holds at least
\* two ASCII letters.
KeyShape ==
    (UsesKeySet(args) /\ last.emitted) =>
        /\ \A i \in 1..Len(LastKey) : IsUpperCh(LastKey[i])
        /\ LetterCount(last.name) >= 2 => Len(LastKey) >= 2

\* A name with two letters of which one is uppercase took the fallback of
\* line 240 and then collided.
KeyShapeWitness ==
    /\ UsesKeySet(args) /\ last.emitted
    /\ last.name = <<"a", "B">>
    /\ candidates[Len(candidates)] = <<"A", "B">>
    /\ LastKey = <<"A", "B", "A">>

\* C9: with an include list, a project whose name is one of the entries as
\* typed is not skipped, and a project whose name matches no entry (even
\* regardless of case) is skipped.
IncludeAsTyped ==
    (args.include_list # <<>> /\ last.n > 0) =>
        /\ InSeq(last.name, args.include_list) => last.included
        /\ (\A i \in 1..Len(args.include_list) :
                StrLower(args.include_list[i]) # StrLower(last.name))
           => ~last.included

-----------------------------------------------------------------------------
(* GLParser.to_JIRA, lines 72-92. *)

\* lit occurs in s at position i
StartsWithAt(s, i, lit) ==
    /\ i >= 1
    /\ i + Len(lit) - 1 <= Len(s)
    /\ SubSeq(s, i, i + Len(lit) - 1) = lit

Contains(s, lit) == \E i \in 1..Len(s) : StartsWithAt(s, i, lit)

\* the least element of a non-empty set of numbers
Least(S) == CHOOSE i \in S : \A j \in S : i <= j

\* the end of the longest run of characters satisfying a class that starts
\* at position i (i - 1 when s[i] is not in the class)
RunEndLowerDigit(s, i) ==
    LET stops == {j \in i..Len(s) : ~(IsLowerCh(s[j]) \/ IsDigitCh(s[j]))}
    IN  IF stops = {} THEN Len(s) ELSE Least(stops) - 1
RunEndAlnum(s, i) ==
    LET stops == {j \in i..Len(s) : ~(IsLetterCh(s[j]) \/ IsDigitCh(s[j]))}
    IN  IF stops = {} THEN Len(s) ELSE Least(stops) - 1

\* str.splitlines(): lines end at \n, \r or \r\n; no empty last line
RECURSIVE SplitLines(_)
SplitLines(s) ==
    LET ends == {i \in 1..Len(s) : s[i] \in {"\n", "\r"}}
    IN  IF s = <<>> THEN <<>>
        ELSE IF ends = {} THEN <<s>>
        ELSE LET i == Least(ends)
                 skip == IF s[i] = "\r" /\ i < Len(s) /\ s[i+1] = "\n"
                         THEN 2 ELSE 1
             IN  <<SubSeq(s, 1, i - 1)>>
                 \o SplitLines(SubSeq(s, i + skip, Len(s)))

\* str.replace(lit, rep): from the left, without overlap
RECURSIVE ReplaceAll(_, _, _)
ReplaceAll(s, lit, rep) ==
    IF s = <<>> THEN <<>>
    ELSE IF StartsWithAt(s, 1, lit)
    THEN rep \o ReplaceAll(SubSeq(s, Len(lit) + 1, Len(s)), lit, rep)
    ELSE <<Head(s)>> \o ReplaceAll(Tail(s), lit, rep)

\* "bq" stands for the backquote
Fence == <<"bq", "bq", "bq">>

\* line 78: re.sub(r'```([a-z]+)$', r'{code:\1}', line)
CodeOpen(line) ==
    LET at == {i \in 1..Len(line) :
                  /\ StartsWithAt(line, i, Fence)
                  /\ i + 3 <= Len(line)
                  /\ \A j \in (i+3)..Len(line) : IsLowerCh(line[j])}
    IN  IF at = {} THEN line
        ELSE LET i == Least(at)
             IN  SubSeq(line, 1, i - 1) \o <<"{", "c", "o", "d", "e", ":">>
                 \o SubSeq(line, i + 3, Len(line)) \o <<"}">>

\* line 79: re.sub(r'```$', r'{code}', line)
CodeClose(line) ==
    IF StartsWithAt(line, Len(line) - 2, Fence)
    THEN SubSeq(line, 1, Len(line) - 3) \o <<"{", "c", "o", "d", "e", "}">>
    ELSE line

\* lines 81-82
Emoji(line) ==
    ReplaceAll(ReplaceAll(line, <<":", "+", "1", ":">>, <<"(", "y", ")">>),
               <<":", "-", "1", ":">>, <<"(", "n", ")">>)

\* r'\[([^\]]+)\]\(([^\)]+)\)' matched at position 1 of s: <<j, k>>, the
\* places of the ']' and of the ')', or <<>>
LinkMatch(s) ==
    LET rb == {j \in 2..Len(s) : s[j] = "]"}
    IN  IF s = <<>> \/ s[1] # "[" \/ rb = {} THEN <<>>
        ELSE LET j == Least(rb)
                 rp == {k \in (j+2)..Len(s) : s[k] = ")"}
             IN  IF j < 3 \/ j + 1 > Len(s) \/ s[j+1] # "(" \/ rp = {}
                 THEN <<>>
                 ELSE IF Least(rp) < j + 3 THEN <<>>
                 ELSE <<j, Least(rp)>>

\* line 84: re.sub(r'\[([^\]]+)\]\(([^\)]+)\)', r'[\1|\2]', line)
RECURSIVE Hyperlinks(_)
Hyperlinks(s) ==
    IF s = <<>> THEN <<>>
    ELSE LET m == LinkMatch(s)
         IN  IF m # <<>>
             THEN <<"[">> \o SubSeq(s, 2, m[1] - 1) \o <<"|">>
                  \o SubSeq(s, m[1] + 2, m[2] - 1) \o <<"]">>
                  \o Hyperlinks(SubSeq(s, m[2] + 1, Len(s)))
             ELSE <<Head(s)>> \o Hyperlinks(Tail(s))

\* r'@([a-zA-Z0-9]+)(\b|_$)' matched at position 1 of s: <<e, g>>, the end
\* of the name and the length of the second group, or <<>>
UserMatch(s) ==
    IF s = <<>> \/ s[1] # "@" THEN <<>>
    ELSE LET e == RunEndAlnum(s, 2)
         IN  IF e < 2 THEN <<>>
             ELSE IF e = Len(s) THEN <<e, 0>>
             ELSE IF s[e+1] = "_"
                  THEN (IF e + 1 = Len(s) THEN <<e, 1>> ELSE <<>>)
             ELSE <<e, 0>>

\* line 86: re.sub(r'@([a-zA-Z0-9]+)(\b|_$)', r'[~\1]\2', line)
RECURSIVE Usernames(_)
Usernames(s) ==
    IF s = <<>> THEN <<>>
    ELSE LET m == UserMatch(s)
         IN  IF m # <<>>
             THEN <<"[", "~">> \o SubSeq(s, 2, m[1]) \o <<"]">>
                  \o SubSeq(s, m[1] + 1, m[1] + m[2])
                  \o Usernames(SubSeq(s, m[1] + m[2] + 1, Len(s)))
             ELSE <<Head(s)>> \o Usernames(Tail(s))

Uploads == <<"/", "u", "p", "l", "o", "a", "d", "s", "/">>

\* r'\]\((\/uploads\/[a-z0-9]+\/)' matched at position 1 of s: the place of
\* the '/' that ends the match, or 0
AssetMatch(s) ==
    IF ~StartsWithAt(s, 1, <<"]", "(">> \o Uploads) THEN 0
    ELSE LET e == RunEndLowerDigit(s, 12)
         IN  IF e >= 12 /\ e < Len(s) /\ s[e+1] = "/" THEN e + 1 ELSE 0

\* lines 87-88: re.sub(r'\]\((\/uploads\/[a-z0-9]+\/)', asset_sub, line)
RECURSIVE AssetLinks(_, _)
AssetLinks(s, root) ==
    IF s = <<>> THEN <<>>
    ELSE LET e == AssetMatch(s)
         IN  IF e > 0
             THEN <<"]", "(">> \o root \o SubSeq(s, 3, e)
                  \o AssetLinks(SubSeq(s, e + 1, Len(s)), root)
             ELSE <<Head(s)>> \o AssetLinks(Tail(s), root)

\* LineToJIRA with the test of line 76 dropped: Markdown always converted
LineToJIRAAlways(line, preserve_markdown, root) ==
    AssetLinks(Usernames(Hyperlinks(Emoji(CodeClose(CodeOpen(line))))), root)

\* lines 76-88: what the loop body makes of one line
LineToJIRA(line, preserve_markdown, root) ==
    LET wiki == IF ~preserve_markdown
                THEN Usernames(Hyperlinks(Emoji(CodeClose(CodeOpen(line)))))
                ELSE line
    IN  AssetLinks(wiki, root)

\* line 89 for each line in turn: print(line, file=output_buf)
RECURSIVE PrintLines(_, _, _)
PrintLines(lines, preserve_markdown, root) ==
    IF lines = <<>> THEN <<>>
    ELSE LineToJIRA(Head(lines), preserve_markdown, root) \o <<"\n">>
         \o PrintLines(Tail(lines), preserve_markdown, root)

\* the lines joined by line feeds, none after the last
RECURSIVE JoinLines(_, _, _)
JoinLines(lines, preserve_markdown, root) ==
    IF lines = <<>> THEN <<>>
    ELSE LineToJIRA(Head(lines), preserve_markdown, root)
         \o (IF Len(lines) > 1 THEN <<"\n">> ELSE <<>>)
         \o JoinLines(Tail(lines), preserve_markdown, root)

\* to_JIRA writing '\n'.join(lines) for a print per line
to_JIRAJoined(t, preserve_markdown, root) ==
    IF ~t.is_none
    THEN JoinLines(SplitLines(t.val), preserve_markdown, root)
    ELSE <<>>

\* lines 72-92; t.is_none says that the text is None
to_JIRA(t, preserve_markdown, root) ==
    IF ~t.is_none
    THEN PrintLines(SplitLines(t.val), preserve_markdown, root)
    ELSE <<"\n">>

\* line 226: project['web_url']
GL_root_url == <<"h", "t", "t", "p", ":", "/", "/", "g", "/", "p">>

\* The texts converted: None, and what up to MaxFragments of these pieces
\* make when put one after another.
Fragments ==
    { <<"[", "x", "]">>,
      <<"(">> \o Uploads \o <<"h", "1", "/">>,
      <<"f", ")">>,
      <<"(", "u", ")">>,
      <<"\n">>,
      <<"\r">>,
      <<":", "+", "1", ":">>,
      <<":", "-", "1", ":">>,
      <<"@", "b", "o", "b">>,
      <<"_">>,
      Fence,
      <<"p", "y">> }

RECURSIVE TextsUpTo(_)
TextsUpTo(n) ==
    IF n = 0 THEN {<<>>}
    ELSE LET shorter == TextsUpTo(n - 1)
         IN  shorter \cup {s \o f : s \in shorter, f \in Fragments}

InitText ==
    /\ \E pm \in BOOLEAN : args = [DefaultArgs EXCEPT !.preserve_markdown = pm]
    /\ pc = "to_JIRA"
    /\ text \in {[is_none |-> TRUE, val |-> <<>>]}
               \cup {[is_none |-> FALSE, val |-> v] : v \in TextsUpTo(MaxFragments)}
    /\ result = <<>>
    /\ IdleProj /\ IdleIssues /\ IdlePages

\* One call of glparser.to_JIRA(text).
ToJIRA ==
    /\ pc = "to_JIRA"
    /\ result' = to_JIRA(text, args.preserve_markdown, GL_root_url)
    /\ pc' = "returned"
    /\ UNCHANGED <<args, text, projVars, issueVars, pageVars>>

NextText == ToJIRA

SpecText == InitText /\ [][NextText]_vars

-----------------------------------------------------------------------------
(* GLParser.to_JIRA: properties. *)

Returned == pc = "returned"

\* the lines of the result: the text before each line feed
ResultLines ==
    IF result = <<>> THEN <<>>
    ELSE IF result[Len(result)] = "\n"
    THEN Split(SubSeq(result, 1, Len(result) - 1), "\n")
    ELSE Split(result, "\n")

InputLines == SplitLines(text.val)

\* C4 as stated: with preserve_markdown the content of every output line is
\* that of the corresponding input line.
PreserveUnchanged ==
    (Returned /\ args.preserve_markdown /\ ~text.is_none) =>
        ResultLines = InputLines

\* C4, amended: with preserve_markdown there is one output line per input
\* line; a line without the asset path ](/uploads/ is returned as it is, and
\* any other line differs from its input only by GL_root_url put after ](.
PreserveButAssets ==
    (Returned /\ args.preserve_markdown /\ ~text.is_none) =>
        /\ Len(ResultLines) = Len(InputLines)
        /\ \A i \in 1..Len(InputLines) :
              /\ ~Contains(InputLines[i], <<"]", "(">> \o Uploads)
                    => ResultLines[i] = InputLines[i]
              /\ ReplaceAll(ResultLines[i], <<"]", "(">> \o GL_root_url,
                            <<"]", "(">>) = InputLines[i]

\* With preserve_markdown, a line holding an emoji and an asset link came
\* back with the emoji kept and the link made absolute.
PreserveButAssetsWitness ==
    /\ Returned /\ args.preserve_markdown /\ ~text.is_none
    /\ Contains(text.val, <<":", "+", "1", ":", "[", "x", "]", "(">> \o Uploads)
    /\ Contains(result, <<":", "+", "1", ":", "[", "x", "]", "(">>
                         \o GL_root_url \o Uploads)

\* C5 as stated: whatever the input, the result ends with a line feed, and
\* for None it is one line feed.
AlwaysTerminated ==
    Returned =>
        /\ result # <<>> /\ result[Len(result)] = "\n"
        /\ text.is_none => result = <<"\n">>

\* C5, amended: for None the result is one line feed; for every text that
\* is not empty the result ends with a line feed; for the empty string the
\* result is the empty string.
TerminatedUnlessEmpty ==
    Returned =>
        /\ text.is_none => result = <<"\n">>
        /\ (~text.is_none /\ text.val # <<>>) =>
              (result # <<>> /\ result[Len(result)] = "\n")
        /\ (~text.is_none /\ text.val = <<>>) => result = <<>>

\* A text of two lines without a final line terminator came back as two
\* terminated lines.
TerminatedWitness ==
    /\ Returned /\ ~text.is_none
    /\ Len(InputLines) = 2
    /\ text.val[Len(text.val)] \notin {"\n", "\r"}
    /\ Len(ResultLines) = 2
    /\ result[Len(result)] = "\n"

\* a well-formed Markdown link [label](/uploads/<hash>/file) in a line
HasAssetLink(line) ==
    \E i, j, e, k \in 1..Len(line) :
        /\ i + 1 < j /\ line[i] = "["
        /\ \A n \in (i+1)..(j-1) : line[n] # "]"
        /\ StartsWithAt(line, j, <<"]", "(">> \o Uploads)
        /\ j + 11 <= e
        /\ \A n \in (j+11)..(e-1) : IsLowerCh(line[n]) \/ IsDigitCh(line[n])
        /\ line[e] = "/"
        /\ e < k /\ line[k] = ")"
        /\ \A n \in (e+1)..(k-1) : line[n] # ")"

\* C6: whether preserve_markdown is set or not, a line with a well-formed
\* link to an asset comes back with the target of the link prefixed by
\* GL_root_url.
AssetLinksAbsolute ==
    (Returned /\ ~text.is_none) =>
        \A i \in 1..Len(InputLines) :
            HasAssetLink(InputLines[i]) =>
                /\ i <= Len(ResultLines)
                /\ Contains(ResultLines[i], GL_root_url \o Uploads)

-----------------------------------------------------------------------------
(* main: the issues of one project, lines 213-223 and 254-289. *)

\* Dates are numbered; 1 is the day given as --date_filter, 0 lies before
\* it and 2 after it.
Dates == {0, 1, 2}

\* Words (states, statuses, the items of --status_map) are strings of one
\* atom each, '=' being an atom of its own.
IssueStates == {<<"opened">>, <<"closed">>, <<"reopened">>}

RECURSIVE SeqsUpTo(_, _)
SeqsUpTo(S, n) ==
    IF n = 0 THEN {<<>>}
    ELSE LET shorter == SeqsUpTo(S, n - 1)
         IN  shorter \cup {Append(q, x) : q \in shorter, x \in S}

\* what git.getprojectissues and git.getissuewallnotes deliver of an issue:
\* its state, its updated_at, and the created_at of its notes
Issues ==
    [state : IssueStates, updated_at : Dates, notes : SeqsUpTo(Dates, MaxNotes)]

\* lines 216-223: whether the issue is appended to project_issues; the test
\* of line 221 reads the issue's updated_at for every note
PassesDateFilter(issue, date_filter) ==
    IF date_filter < issue.updated_at THEN TRUE
    ELSE \E n \in 1..Len(issue.notes) : date_filter < issue.updated_at

\* StatusFields setting the resolution on both branches
StatusFieldsBoth(state) ==
    IF state = <<"closed">>
    THEN [status |-> <<"Closed">>, resolution |-> <<"Resolved">>]
    ELSE [status |-> <<"Open">>, resolution |-> <<"Resolved">>]

\* lines 260-264: status, and resolution for a closed issue only
StatusFields(state) ==
    IF state = <<"closed">>
    THEN [status |-> <<"Closed">>, resolution |-> <<"Resolved">>]
    ELSE [status |-> <<"Open">>]

\* lines 265-267
MappedStatus(state, status, status_map) ==
    IF status_map # <<>> THEN DictGet(status_map, state, status) ELSE status

\* lines 281-288: a comment for every note; its 'created' is the created_at
Comments(notes) == [i \in 1..Len(notes) |-> [created |-> notes[i]]]

\* lines 255-288: the record of one issue (externalId, status, resolution
\* and comments; the other fields are copied from the issue)
JiraIssue(iid, issue, status_map) ==
    LET fields == StatusFields(issue.state)
        mapped == [fields EXCEPT
                     !.status = MappedStatus(issue.state, @, status_map)]
    IN  mapped @@ [externalId |-> iid, comments |-> Comments(issue.notes)]

\* lines 214-223 for one issue the generator delivers
FetchIssue(issue) ==
    /\ pc = "fetch"
    /\ n_fetched < MaxIssues
    /\ n_fetched' = n_fetched + 1
    /\ project_issues' =
          IF PassesDateFilter(issue, args.date_filter)
          THEN Append(project_issues, [iid |-> n_fetched + 1] @@ issue)
          ELSE project_issues
    /\ UNCHANGED <<args, pc, jira_issues, projVars, textVars, pageVars>>

\* line 225, the generator of line 214 being exhausted
EndFetch ==
    /\ pc = "fetch"
    /\ pc' = IF project_issues # <<>> \/ args.include_empty
             THEN "emit" ELSE "skipped"
    /\ UNCHANGED <<args, issueVars, projVars, textVars, pageVars>>

\* lines 254-289 for the next issue of project_issues; line 266 raises
\* ValueError on an item of --status_map without exactly one '='
EmitIssue ==
    /\ pc = "emit"
    /\ Len(jira_issues) < Len(project_issues)
    /\ LET issue == project_issues[Len(jira_issues) + 1]
       IN  IF args.status_map # <<>> /\ ~DictItemsOk(args.status_map)
           THEN pc' = "crashed" /\ UNCHANGED jira_issues
           ELSE /\ jira_issues' =
                      Append(jira_issues,
                             JiraIssue(issue.iid, issue, args.status_map))
                /\ pc' = pc
    /\ UNCHANGED <<args, project_issues, n_fetched, projVars, textVars,
                   pageVars>>

\* line 291: output_dict['projects'].append(jira_project)
AppendProject ==
    /\ pc = "emit"
    /\ Len(jira_issues) = Len(project_issues)
    /\ pc' = "appended"
    /\ UNCHANGED <<args, issueVars, projVars, textVars, pageVars>>

StatusMaps ==
    { <<>>,
      << <<"closed", "=", "Done">>, <<"opened", "=", "Closed">> >>,
      << <<"reopened", "=", "Open">>, <<"closed", "=", "Closed">> >>,
      << <<"closed">> >> }

InitIssues ==
    /\ \E sm \in StatusMaps, ie \in BOOLEAN :
          args = [DefaultArgs EXCEPT !.date_filter = 1, !.status_map = sm,
                                     !.include_empty = ie]
    /\ pc = "fetch"
    /\ IdleProj /\ IdleText /\ IdleIssues /\ IdlePages

NextIssues ==
    \/ \E issue \in Issues : FetchIssue(issue)
    \/ EndFetch
    \/ EmitIssue
    \/ AppendProject

SpecIssues == InitIssues /\ [][NextIssues]_vars

-----------------------------------------------------------------------------
(* The issues of one project: properties. *)

HasResolution(jira_issue) == "resolution" \in DOMAIN jira_issue

\* C7 as stated: whatever the state of the source issue and the status map,
\* an emitted issue has a resolution only if its status is "Closed".
ResolutionOnlyIfClosed ==
    \A i \in 1..Len(jira_issues) :
        HasResolution(jira_issues[i]) => jira_issues[i].status = <<"Closed">>

\* C7, amended: an emitted issue has a resolution exactly when the state of
\* its source issue is 'closed'; its status is then "Closed" unless the
\* status map gives 'closed' another status, and then it is that status.
ResolutionIffSourceClosed ==
    \A i \in 1..Len(jira_issues) :
        /\ HasResolution(jira_issues[i])
              <=> project_issues[i].state = <<"closed">>
        /\ HasResolution(jira_issues[i]) =>
              jira_issues[i].status =
                  DictGet(args.status_map, <<"closed">>, <<"Closed">>)

\* A closed issue was emitted as "Done", with its resolution, under a
\* status map that renames 'closed'.
ResolutionWitness ==
    /\ Len(jira_issues) >= 1
    /\ project_issues[1].state = <<"closed">>
    /\ jira_issues[1].status = <<"Done">>
    /\ HasResolution(jira_issues[1])

\* C8: with a date filter D, every issue of the output has an updated_at
\* after D and every comment of the output a created_at after D.
DateFilterHolds ==
    \A i \in 1..Len(jira_issues) :
        /\ project_issues[i].updated_at > args.date_filter
        /\ \A c \in 1..Len(jira_issues[i].comments) :
              jira_issues[i].comments[c].created > args.date_filter

-----------------------------------------------------------------------------
(* gen_all_results, lines 33-50. *)

Min(a, b) == IF a < b THEN a ELSE b

\* page n of the source, per_page items a page
Slice(n) == SubSeq(source, (n - 1) * per_page + 1, Min(n * per_page, Len(source)))

\* What method(*args, page=n, per_page=per_page) can return: the page, a
\* page cut short by the remote, or False when the call fails.
Responses(n) ==
    {[page |-> n, ok |-> FALSE, items |-> <<>>]}
    \cup {[page |-> n, ok |-> TRUE, items |-> SubSeq(Slice(n), 1, k)] :
            k \in 0..Len(Slice(n))}

\* line 46: if proj_page (False and the empty list are both false)
Truthy(resp) == resp.ok /\ resp.items # <<>>

\* GetMoreAfter asking for more after any page that is not empty
GetMoreAfterAny(resp, pp) == Len(resp.items) > 0

\* line 47: get_more = len(proj_page) == per_page
GetMoreAfter(resp, pp) == Len(resp.items) = pp

\* lines 42-47 and 49-50: the next page is asked for and looked at
Request ==
    /\ pc = "loop"
    /\ get_more
    /\ page_num' = page_num + 1
    /\ \E resp \in Responses(page_num + 1) :
          /\ pages' = Append(pages, resp)
          /\ IF Truthy(resp)
             THEN /\ get_more' = GetMoreAfter(resp, per_page)
                  /\ proj_page' = resp.items
                  /\ pc' = "yield"
             ELSE /\ get_more' = FALSE
                  /\ proj_page' = <<>>
                  /\ pc' = "loop"
    /\ UNCHANGED <<args, source, per_page, yielded, projVars, textVars,
                   issueVars>>

\* line 48: yield from iter(proj_page), one item
Yield ==
    /\ pc = "yield"
    /\ proj_page # <<>>
    /\ yielded' = Append(yielded, Head(proj_page))
    /\ proj_page' = Tail(proj_page)
    /\ UNCHANGED <<args, pc, source, per_page, page_num, get_more, pages,
                   projVars, textVars, issueVars>>

\* line 48: the page is exhausted, back to the test of line 42
PageDone ==
    /\ pc = "yield"
    /\ proj_page = <<>>
    /\ pc' = "loop"
    /\ UNCHANGED <<args, pageVars, projVars, textVars, issueVars>>

\* line 42: get_more is false, the generator returns
Return ==
    /\ pc = "loop"
    /\ ~get_more
    /\ pc' = "done"
    /\ UNCHANGED <<args, pageVars, projVars, textVars, issueVars>>

InitPages ==
    /\ args = DefaultArgs
    /\ pc = "loop"
    /\ \E n \in 0..MaxItems : source = [i \in 1..n |-> i]
    /\ per_page \in 1..MaxPerPage
    /\ page_num = 0
    /\ get_more = TRUE
    /\ proj_page = <<>> /\ yielded = <<>> /\ pages = <<>>
    /\ IdleProj /\ IdleText /\ IdleIssues

NextPages == Request \/ Yield \/ PageDone \/ Return

SpecPages == InitPages /\ [][NextPages]_vars

\* main runs every generator to its end, in one thread: a step that can be
\* taken is taken.
LiveSpecPages == SpecPages /\ WF_vars(NextPages)

-----------------------------------------------------------------------------
(* gen_all_results: properties. *)

RECURSIVE ItemsOf(_)
ItemsOf(ps) ==
    IF ps = <<>> THEN <<>>
    ELSE (IF Head(ps).ok THEN Head(ps).items ELSE <<>>) \o ItemsOf(Tail(ps))

ServedInFull ==
    \A n \in 1..Len(pages) : pages[n].ok /\ pages[n].items = Slice(n)

PagingInvariant ==
    \* pages 1, 2, 3, ... are asked for, in this order
    /\ Len(pages) = page_num
    /\ \A n \in 1..Len(pages) : pages[n].page = n
    \* page n + 1 is asked for only after a page n of exactly per_page items
    /\ \A n \in 1..(Len(pages) - 1) :
          Truthy(pages[n]) /\ Len(pages[n].items) = per_page
    \* what is yielded is what the pages held, in order
    /\ yielded \o proj_page = ItemsOf(pages)
    /\ pc = "done" =>
          /\ yielded = ItemsOf(pages)
          /\ Len(pages) >= 1
          /\ ~Truthy(pages[Len(pages)])
                \/ Len(pages[Len(pages)].items) # per_page
    \* a source served in full pages is yielded whole, each item once
    /\ (pc = "done" /\ ServedInFull) => yielded = source

\* C10: gen_all_results asks for the pages 1, 2, 3, ... in order, for page
\* n + 1 only if page n was not empty and held exactly per_page items, and
\* for none after the first page that is false or of another length; it
\* yields the items of the pages fetched, in order; and it terminates, having
\* yielded every item of a source served in full pages exactly once.
PagingSequential == []PagingInvariant /\ <>(pc = "done")

\* A source of two full pages was read to its end with three requests.
PagingWitness ==
    /\ pc = "done" /\ ServedInFull
    /\ Len(source) = 2 * per_page /\ per_page >= 2
    /\ Len(pages) = 3
    /\ yielded = source

=============================================================================
